---- MODULE Spec2Model ----
(***************************************************************************)
(* BookNest recommendation subsystem: the model registry                   *)
(* (RecommendationModel rows, services.py / views.py), the rating-threshold *)
(* trigger (signals.py), the celery tasks (tasks.py) and the engine        *)
(* (recommendation_engine.py).                                             *)
(*                                                                         *)
(* The database is PostgreSQL (docker_settings.py) at its default          *)
(* isolation level, READ COMMITTED: a statement outside transaction.atomic *)
(* commits on its own; inside transaction.atomic the writes of a           *)
(* transaction are invisible to everyone else until COMMIT, the rows it    *)
(* wrote are locked until then, and an UPDATE sees the rows committed      *)
(* when the statement started.                                             *)
(***************************************************************************)
EXTENDS Integers, Sequences, FiniteSets, TLC

(* ------------------------------ bounds -------------------------------- *)

\* worker processes (web workers, celery workers, management commands)
NProcs == 2
\* RecommendationModel ids handed out by the id sequence
MaxModels == 3

Procs == 1..NProcs
Users == {"u1", "u2"}
ModelTypes == {"svd", "knn"}
\* the rating counts of the users the registry specifications start from
RatingProfiles ==
    {[u1 |-> 0, u2 |-> 0], [u1 |-> 2, u2 |-> 0],
     [u1 |-> 2, u2 |-> 5], [u1 |-> 5, u2 |-> 5]}
\* min_ratings_per_user values a training call is given
MinRatingsChoices == {0, 5}

\* ratings a user can hold, times the trigger can act for a user, tasks
\* the queue can hold
MaxRatings == 23
MaxFirings == 2
MaxTasks == 1
\* the users who rate, and the rating counts the trigger starts from
RatingUsers == {"u1"}
TriggerProfiles == {[u1 |-> 0, u2 |-> 0], [u1 |-> 0, u2 |-> 5]}

\* the books, the estimates a model gives them, the trainings of the
\* rating-by-rating specification and the inputs of its calls
Items == {"i1", "i2", "i3"}
Scores == {1, 2}
MaxEngines == 1
EngineMinRatings == {0, 2}
NChoices == {1, 10}
\* the profiles that follow one another
Profiles == {"p1", "p2", "p3"}
\* the users who send vote requests, the author of the review among them
Voters == {"u1", "u2", "u3"}
ReviewAuthor == "u3"
VoteTypes == {"upvote", "downvote"}
\* n_recommendations and min_ratings of a bulk generation: 10 and 3 are
\* the defaults
BulkN == 10
BulkMinRatings == {1, 3}
\* the books whose lookup fails when a batch is stored
MissingBooks == {{}, {"i3"}}
EngineProfiles ==
    {[u1 |-> {"i1", "i2"}, u2 |-> {"i1", "i3"}],
     [u1 |-> {"i1"}, u2 |-> {"i2"}],
     [u1 |-> {}, u2 |-> {}]}

(* ----------------------------- constants ------------------------------ *)

\* signals.py: the count at which the trigger acts, and the
\* min_ratings_per_user it trains with
RATING_THRESHOLD == 22
TriggerMinRatings == 5

VARIABLES
    ratingCount,  \* BookRating: number of rows of each user
    models,       \* RecommendationModel: the committed rows, id -> row
    nextId,       \* RecommendationModel's id sequence
    pc,           \* where each worker process stands in its call
    call,         \* the call a process executes: arguments and locals
    tx,           \* the open transaction.atomic block of a process
    recs,         \* UserRecommendation: the model of each user's stored batch
    last,         \* the call that finished last: what it was and returned
    tasks,        \* celery: the generation tasks queued
    fired,        \* how often the trigger started training, by user
    trigger,      \* what the trigger did at the last post_save
    ratings,      \* BookRating: the books each user rated
    engines,      \* the pickled engines by model id, rating by rating
    recBooks,     \* UserRecommendation: the books of each user's batch
    args,         \* the arguments of the generation call that finished last
    follows,      \* Follow: the rows, as <<follower, followed>>
    votes,        \* ReviewVote: the rows of one review
    upvotes_count,   \* BookReview.upvotes_count of that review
    downvotes_count  \* BookReview.downvotes_count of that review

triggerVars == <<tasks, fired, trigger>>

engineVars == <<ratings, engines, recBooks, args>>

socialVars == <<follows, votes, upvotes_count, downvotes_count>>

vars == <<ratingCount, models, nextId, pc, call, tx, recs, last,
          triggerVars, engineVars, socialVars>>

(* --------------------------- RecommendationModel ---------------------- *)

\* model_file: null, or the pickled engine; of the engine the registry
\* level keeps the trained population (the users of its trainset)
NoFile == [stored |-> FALSE, trained |-> {}]

PickledEngine(trained) == [stored |-> TRUE, trained |-> trained]

\* updated_at (auto_now) is kept as the kind of call whose save() wrote it
\* last: the training call that created the row, or a later activate
NewRow(model_type, min_ratings_per_user) ==
    [model_type |-> model_type,
     is_active |-> TRUE,
     min_ratings_per_user |-> min_ratings_per_user,
     model_file |-> NoFile,
     updated_at |-> "train"]

EmptyTable == [i \in {} |-> NewRow("svd", 0)]

\* a filter that matches no row
FilterActiveNone(table, model_type) == {}

\* filter(model_type=model_type, is_active=True)
FilterActive(table, model_type) ==
    {i \in DOMAIN table :
        table[i].model_type = model_type /\ table[i].is_active}

FilterTypeNone(table, model_type) == {}

\* filter(model_type=model.model_type)
FilterType(table, model_type) ==
    {i \in DOMAIN table : table[i].model_type = model_type}

\* .delete() on the rows ids
DeleteRows(table, ids) == [i \in DOMAIN table \ ids |-> table[i]]

\* .update(is_active=False) on the rows ids
UpdateInactive(table, ids) ==
    [i \in DOMAIN table |->
        IF i \in ids THEN [table[i] EXCEPT !.is_active = FALSE] ELSE table[i]]

\* RecommendationModel.objects.create(..., is_active=True)
Create(table, id, row) ==
    [i \in DOMAIN table \cup {id} |-> IF i = id THEN row ELSE table[i]]

\* model_record.model_file.save(name, ContentFile(pickle.dumps(engine)))
FileSave(table, id, engine) ==
    [table EXCEPT ![id].model_file = engine]

\* model.is_active = True; model.save(): every field of the row is written
\* from the instance read by get_object, updated_at with the time of the
\* save
SaveInstance(table, id, obj) ==
    [table EXCEPT ![id] = [obj EXCEPT !.is_active = TRUE,
                                      !.updated_at = "activate"]]

(* ------------------------------ ratings ------------------------------- *)

\* ratings_df.empty
RatingsEmpty(counts) == \A u \in Users : counts[u] = 0

\* every user with a rating, whatever min_ratings_per_user is
FilterActiveUsersAll(counts, min_ratings_per_user) ==
    {u \in Users : counts[u] > 0}

\* _filter_active_users: value_counts() >= min_ratings_per_user
FilterActiveUsers(counts, min_ratings_per_user) ==
    {u \in Users : counts[u] > 0 /\ counts[u] >= min_ratings_per_user}

RECURSIVE SumCounts(_, _)
SumCounts(counts, S) ==
    IF S = {} THEN 0
    ELSE LET u == CHOOSE x \in S : TRUE
         IN  counts[u] + SumCounts(counts, S \ {u})

\* surprise's train_test_split with test_size=0.2: ceil(0.2 * n) of the n
\* filtered ratings go to the test set
TestSize(n) == (n + 4) \div 5

\* The ways the shuffled split can share the test set among the users: how
\* many ratings of each filtered user land in the test set.
TestAllocations(counts, active) ==
    {k \in [Users -> 0..TestSize(SumCounts(counts, active))] :
        /\ \A u \in Users : k[u] <= (IF u \in active THEN counts[u] ELSE 0)
        /\ SumCounts(k, Users) = TestSize(SumCounts(counts, active))}

\* the users of the trainset: those with a rating left in the training part
TrainsetUsers(counts, active, k) == {u \in active : k[u] < counts[u]}

(* --------------------------- transactions ----------------------------- *)

NoTx == [open |-> FALSE, targets |-> {}, writes |-> EmptyTable]

\* the table as the transaction of p sees it: the committed rows under its
\* own uncommitted writes
Overlay(table, writes) ==
    [i \in DOMAIN table \cup DOMAIN writes |->
        IF i \in DOMAIN writes THEN writes[i] ELSE table[i]]

View(p) == Overlay(models, tx[p].writes)

\* locks as they would be if a process held the registry while it fits
LockedByFitting(p, ids) ==
    \E q \in Procs \ {p} :
        \/ pc[q] \in {"ratings", "fit"}
        \/ tx[q].open /\ ids \cap DOMAIN tx[q].writes # {}

\* rows written by an open transaction of another process are locked
LockedByOther(p, ids) ==
    \E q \in Procs \ {p} : tx[q].open /\ ids \cap DOMAIN tx[q].writes # {}

\* the writes of a transaction after a statement that took its view to
\* newView by writing the rows touched
WritesAfter(p, newView, touched) ==
    [i \in DOMAIN tx[p].writes \cup touched |-> newView[i]]

(* ------------------------------- calls -------------------------------- *)

NoCall ==
    [op |-> "none", model_type |-> "svd", min_ratings_per_user |-> 0,
     id |-> 0, obj |-> NewRow("svd", 0), engine |-> NoFile,
     pre |-> EmptyTable]

NoResponse == [status |-> 0, body |-> "none"]

NoLast ==
    [op |-> "none", kind |-> "none", at |-> "idle", id |-> 0,
     response |-> NoResponse, user |-> "none", books |-> <<>>]

Idle(p) == pc[p] = "idle"

\* calls made one after the other: no other process is inside a call
Alone(p) == \A q \in Procs \ {p} : Idle(q)

\* the call of p ends at the step at, returning kind (and the row id)
Finish(p, op, kind, id) ==
    /\ pc' = [pc EXCEPT ![p] = "idle"]
    /\ call' = [call EXCEPT ![p] = NoCall]
    /\ last' = [op |-> op, kind |-> kind, at |-> pc[p], id |-> id,
                response |-> NoResponse, user |-> "none", books |-> <<>>]

(* ------------- RecommendationService.train_recommendation_model ------- *)

\* the steps of a training call that has not taken its row id yet
BeforeCreate == {"ratings", "fit", "atomic", "deactivate", "create"}

\* train_recommendation_model(model_type, min_ratings_per_user, ...) is
\* called: by the train view, the celery task or the management command
TrainCall(p, serial) ==
    \E model_type \in ModelTypes, min_ratings_per_user \in MinRatingsChoices :
        /\ Idle(p)
        /\ serial => Alone(p)
        /\ nextId + Cardinality({q \in Procs : pc[q] \in BeforeCreate})
                <= MaxModels
        /\ call' = [call EXCEPT ![p] =
                [NoCall EXCEPT !.op = "train",
                               !.model_type = model_type,
                               !.min_ratings_per_user = min_ratings_per_user,
                               !.pre = models]]
        /\ pc' = [pc EXCEPT ![p] = "ratings"]
        /\ UNCHANGED <<triggerVars, engineVars, socialVars,
                       ratingCount, recs, models, nextId, tx, last>>

\* get_ratings_dataframe, ratings_df.empty, and engine.train up to the
\* active-user filter: both data failures return None before any write
TrainData(p) ==
    /\ pc[p] = "ratings"
    /\ IF \/ RatingsEmpty(ratingCount)
          \/ FilterActiveUsers(ratingCount, call[p].min_ratings_per_user) = {}
       THEN Finish(p, "train", "None", 0)
       ELSE /\ pc' = [pc EXCEPT ![p] = "fit"]
            /\ UNCHANGED <<call, last>>
    /\ UNCHANGED <<triggerVars, engineVars, socialVars,
                   ratingCount, recs, models, nextId, tx>>

\* engine.train from the split on: train_test_split, model.fit, evaluation.
\* It returns the metrics, returns None (no dataset), or raises; no
\* transaction is open meanwhile.
Fit(p) ==
    /\ pc[p] = "fit"
    /\ \/ \E k \in TestAllocations(ratingCount,
                   FilterActiveUsers(ratingCount, call[p].min_ratings_per_user)) :
            /\ call' = [call EXCEPT ![p].engine =
                    PickledEngine(TrainsetUsers(ratingCount,
                        FilterActiveUsers(ratingCount,
                                          call[p].min_ratings_per_user), k))]
            /\ pc' = [pc EXCEPT ![p] = "atomic"]
            /\ last' = last
       \/ Finish(p, "train", "None", 0)
       \/ Finish(p, "train", "exception", 0)
    /\ UNCHANGED <<triggerVars, engineVars, socialVars,
                   ratingCount, recs, models, nextId, tx>>

\* with transaction.atomic(): the UPDATE statement starts and fixes the rows
\* it will write, those committed as active rows of the type
TxBegin(p) ==
    /\ pc[p] = "atomic"
    /\ tx' = [tx EXCEPT ![p] =
            [open |-> TRUE,
             targets |-> FilterActive(models, call[p].model_type),
             writes |-> EmptyTable]]
    /\ pc' = [pc EXCEPT ![p] = "deactivate"]
    /\ UNCHANGED <<triggerVars, engineVars, socialVars,
                   ratingCount, recs, models, nextId, call, last>>

\* ...update(is_active=False): waits for the locks on its rows, then writes
\* those that still match
TxDeactivate(p) ==
    /\ pc[p] = "deactivate"
    /\ ~LockedByOther(p, tx[p].targets)
    /\ LET ids == tx[p].targets \cap FilterActive(models, call[p].model_type)
       IN  tx' = [tx EXCEPT ![p].writes =
                    WritesAfter(p, UpdateInactive(View(p), ids), ids)]
    /\ pc' = [pc EXCEPT ![p] = "create"]
    /\ UNCHANGED <<triggerVars, engineVars, socialVars,
                   ratingCount, recs, models, nextId, call, last>>

\* an exit from the atomic block that keeps the writes made so far
RolledBackKeepWrites(p) == View(p)

\* what leaving the atomic block on an exception does to the committed
\* rows: ROLLBACK drops the writes of the transaction
RolledBack(p) == models

\* the exception leaves the atomic block and train_recommendation_model
Rollback(p) ==
    /\ models' = RolledBack(p)
    /\ tx' = [tx EXCEPT ![p] = NoTx]
    /\ Finish(p, "train", "exception", 0)
    /\ UNCHANGED <<triggerVars, engineVars, socialVars,
                   ratingCount, recs, nextId>>

\* RecommendationModel.objects.create(...): the id sequence advances also
\* when the transaction is rolled back later
TxCreate(p) ==
    /\ pc[p] = "create"
    /\ \/ /\ tx' = [tx EXCEPT ![p].writes =
                    WritesAfter(p,
                        Create(View(p), nextId,
                               NewRow(call[p].model_type,
                                      call[p].min_ratings_per_user)),
                        {nextId})]
          /\ call' = [call EXCEPT ![p].id = nextId]
          /\ nextId' = nextId + 1
          /\ pc' = [pc EXCEPT ![p] = "file"]
          /\ UNCHANGED <<triggerVars, engineVars, socialVars,
                         ratingCount, recs, models, last>>
       \/ Rollback(p)

\* pickle.dumps(engine) and model_file.save(...), which saves the row
TxFileSave(p) ==
    /\ pc[p] = "file"
    /\ \/ /\ tx' = [tx EXCEPT ![p].writes =
                    WritesAfter(p,
                        FileSave(View(p), call[p].id, call[p].engine),
                        {call[p].id})]
          /\ pc' = [pc EXCEPT ![p] = "commit"]
          /\ UNCHANGED <<triggerVars, engineVars, socialVars,
                         ratingCount, recs, models, nextId, call, last>>
       \/ Rollback(p)

\* the atomic block ends: COMMIT; return model_record
TxCommit(p) ==
    /\ pc[p] = "commit"
    /\ models' = View(p)
    /\ tx' = [tx EXCEPT ![p] = NoTx]
    /\ Finish(p, "train", "record", call[p].id)
    /\ UNCHANGED <<triggerVars, engineVars, socialVars,
                   ratingCount, recs, nextId>>

(* ----------------- RecommendationModelViewSet.activate ---------------- *)

\* model = self.get_object(): 404 when there is no such row
ActivateGet(p, serial) ==
    \E id \in 1..MaxModels :
        /\ Idle(p)
        /\ serial => Alone(p)
        /\ IF id \in DOMAIN models
           THEN /\ call' = [call EXCEPT ![p] =
                        [NoCall EXCEPT !.op = "activate",
                                       !.id = id,
                                       !.model_type = models[id].model_type,
                                       !.obj = models[id],
                                       !.pre = models]]
                /\ pc' = [pc EXCEPT ![p] = "act_update"]
                /\ last' = last
           ELSE Finish(p, "activate", "404", id)
        /\ UNCHANGED <<triggerVars, engineVars, socialVars,
                       ratingCount, recs, models, nextId, tx>>

\* filter(model_type=model.model_type).update(is_active=False), a statement
\* that commits on its own
ActivateUpdate(p) ==
    /\ pc[p] = "act_update"
    /\ LET ids == FilterType(models, call[p].obj.model_type)
       IN  /\ ~LockedByOther(p, ids)
           /\ models' = UpdateInactive(models, ids)
    /\ pc' = [pc EXCEPT ![p] = "act_save"]
    /\ UNCHANGED <<triggerVars, engineVars, socialVars,
                   ratingCount, recs, nextId, call, tx, last>>

\* model.is_active = True; model.save(), a second statement of its own
ActivateSave(p) ==
    /\ pc[p] = "act_save"
    /\ ~LockedByOther(p, {call[p].id})
    /\ models' = SaveInstance(models, call[p].id, call[p].obj)
    /\ Finish(p, "activate", "200", call[p].id)
    /\ UNCHANGED <<triggerVars, engineVars, socialVars,
                   ratingCount, recs, nextId, tx>>

(* ------- RecommendationService.generate_recommendations_for_user ------ *)

\* load_recommendation_model(model_id): the id of the row whose engine is
\* loaded, 0 for None. Without an id it is the first active row in the
\* table's ordering, -created_at: the one created last. A get() that finds
\* no row raises, and load turns every exception into None.
LoadRecord(table, model_id) ==
    LET active == {i \in DOMAIN table : table[i].is_active}
        record ==
            IF model_id # 0
            THEN IF model_id \in DOMAIN table THEN model_id ELSE 0
            ELSE IF active = {} THEN 0
                 ELSE CHOOSE i \in active : \A j \in active : j <= i
    IN  IF record # 0 /\ table[record].model_file.stored THEN record ELSE 0

\* The service call where only the rating counts are known. readFails:
\* opening or unpickling the file raises, which load turns into None.
\* unrated: the trainset holds an item outside the user's training ratings.
\* The result: the row loaded (0: none) and whether a batch was stored.
GenerateForUser(table, user, model_id, readFails, unrated) ==
    LET loaded == IF readFails THEN 0 ELSE LoadRecord(table, model_id)
    IN  [loaded |-> loaded,
         hasRecs |-> /\ loaded # 0
                     /\ user \in table[loaded].model_file.trained
                     /\ unrated]

\* delete() and bulk_create() of the user's batch, in one transaction
StoreBatch(batches, user, outcome) ==
    IF outcome.hasRecs THEN [batches EXCEPT ![user] = outcome.loaded]
    ELSE batches

\* UserRecommendationViewSet.generate, synchronous: the response made of the
\* list the service returned (hasRecs: the list is not empty)
GenerateView(hasRecs) ==
    [status |-> 200, body |-> IF hasRecs THEN "data" ELSE "message"]

\* an atomic block that writes nothing
TrainSavedNothing(table, id, model_type, min_ratings_per_user, engine) ==
    table

\* the whole of train_recommendation_model's atomic block
TrainSaved(table, id, model_type, min_ratings_per_user, engine) ==
    FileSave(Create(UpdateInactive(table, FilterActive(table, model_type)),
                    id, NewRow(model_type, min_ratings_per_user)),
             id, engine)

(* ---------- trigger_recommendations_on_rating_threshold --------------- *)

\* The results train_recommendation_model can hand to the trigger: a saved
\* record and the users of its trainset, None, or an exception (ids: the
\* ids the call took from the sequence, which a rollback does not return).
TrainOutcomes(counts, min_ratings_per_user) ==
    LET active == FilterActiveUsers(counts, min_ratings_per_user)
        failures == {[kind |-> "exception", trained |-> {}, ids |-> n] :
                        n \in {0, 1}}
    IN  IF RatingsEmpty(counts) \/ active = {}
        THEN {[kind |-> "None", trained |-> {}, ids |-> 0]}
        ELSE {[kind |-> "record",
               trained |-> TrainsetUsers(counts, active, k),
               ids |-> 1] : k \in TestAllocations(counts, active)}
             \cup {[kind |-> "None", trained |-> {}, ids |-> 0]}
             \cup failures

\* failures: the steps of the handler that failed; raised: whether an
\* exception left the handler
NoTrigger ==
    [user |-> "none", created |-> FALSE, count |-> 0, train |-> "none",
     model_id |-> 0, gen |-> "none", failures |-> {}, raised |-> FALSE]

\* a try statement without an except clause: what is raised leaves it
Uncaught(raises) == raises

\* try: ... except Exception as e: logger.error(...): nothing leaves it
Caught(raises) == FALSE

\* Whether an exception leaves the handler: the training call sits in a
\* try of its own, delay() in one whose except clause holds the try around
\* the synchronous call, and one more try is around all three.
HandlerRaises(train, delayRaises, syncRaises) ==
    Caught(\/ Caught(train = "exception")
           \/ delayRaises /\ Caught(syncRaises))

\* the response of the rating view: 201, or 500 when post_save raised
CreatedStatus(raised) == IF raised THEN 500 ELSE 201

\* The handler's body once the count equals RATING_THRESHOLD: training
\* inline, then the task's delay(), and the synchronous call should delay()
\* raise. Exceptions of the synchronous call are logged.
ThresholdReached(user, counts) ==
    \E outcome \in TrainOutcomes(counts, TriggerMinRatings),
       delayRaises \in BOOLEAN, readFails \in BOOLEAN, unrated \in BOOLEAN,
       syncRaises \in BOOLEAN :
        LET model_id == IF outcome.kind = "record" THEN nextId ELSE 0
            table == IF outcome.kind = "record"
                     THEN TrainSaved(models, nextId, "svd",
                                     TriggerMinRatings,
                                     PickledEngine(outcome.trained))
                     ELSE models
            sync == GenerateForUser(table, user, model_id, readFails,
                                    unrated)
        IN  /\ fired[user] < MaxFirings
            /\ syncRaises => delayRaises
            /\ nextId + outcome.ids <= MaxModels + 1
            /\ delayRaises \/ Cardinality(tasks) < MaxTasks
            /\ models' = table
            /\ nextId' = nextId + outcome.ids
            /\ fired' = [fired EXCEPT ![user] = @ + 1]
            /\ tasks' = IF delayRaises THEN tasks
                        ELSE tasks \cup {[user |-> user,
                                          model_id |-> model_id]}
            /\ recs' = IF delayRaises /\ ~syncRaises
                       THEN StoreBatch(recs, user, sync)
                       ELSE recs
            /\ trigger' = [user |-> user, created |-> TRUE,
                           count |-> counts[user],
                           train |-> outcome.kind,
                           model_id |-> model_id,
                           gen |-> IF delayRaises THEN "sync" ELSE "task",
                           failures |->
                               {x \in {"train"} : outcome.kind # "record"}
                               \cup {x \in {"delay"} : delayRaises}
                               \cup {x \in {"sync"} : syncRaises},
                           raised |-> HandlerRaises(outcome.kind,
                                          delayRaises, syncRaises)]

\* a handler that does not look at created
PostSaveEverySave(user, created, counts) ==
    IF counts[user] = RATING_THRESHOLD
    THEN ThresholdReached(user, counts)
    ELSE /\ trigger' = [NoTrigger EXCEPT !.user = user,
                                         !.created = created,
                                         !.count = counts[user]]
         /\ UNCHANGED <<models, nextId, fired, tasks, recs>>

\* post_save of a BookRating: the handler returns at once unless the row
\* was created, and acts only when the user's count equals the threshold
PostSave(user, created, counts) ==
    IF created /\ counts[user] = RATING_THRESHOLD
    THEN ThresholdReached(user, counts)
    ELSE /\ trigger' = [NoTrigger EXCEPT !.user = user,
                                         !.created = created,
                                         !.count = counts[user]]
         /\ UNCHANGED <<models, nextId, fired, tasks, recs>>

RatingResponse(kind, status) ==
    [op |-> "rating", kind |-> kind, at |-> "view", id |-> 0,
     response |-> [status |-> status, body |-> "data"],
     user |-> "none", books |-> <<>>]

\* BookRatingCreateAPIView for a book the user has not rated yet:
\* BookRatingSerializer.create inserts the row
RatingCreate(user) ==
    /\ ratingCount[user] < MaxRatings
    /\ ratingCount' = [ratingCount EXCEPT ![user] = @ + 1]
    /\ PostSave(user, TRUE, ratingCount')
    /\ last' = RatingResponse("created", CreatedStatus(trigger'.raised))
    /\ UNCHANGED <<pc, call, tx, engineVars, socialVars>>

\* A rating saved again: BookRatingCreateAPIView for a book the user rated
\* before (the serializer updates the row), or BookRatingUpdateAPIView
RatingSave(user) ==
    /\ ratingCount[user] > 0
    /\ PostSave(user, FALSE, ratingCount)
    /\ \E status \in {200, 201} : last' = RatingResponse("updated", status)
    /\ UNCHANGED <<ratingCount, pc, call, tx, engineVars, socialVars>>

\* BookRatingDeleteAPIView: no post_save
RatingDelete(user) ==
    /\ ratingCount[user] > 0
    /\ ratingCount' = [ratingCount EXCEPT ![user] = @ - 1]
    /\ last' = RatingResponse("deleted", 204)
    /\ UNCHANGED <<models, nextId, pc, call, tx, recs, triggerVars,
                   engineVars, socialVars>>

\* a celery worker runs a queued generate_recommendations_for_user_task
RunTask ==
    \E t \in tasks, readFails \in BOOLEAN, unrated \in BOOLEAN :
        LET outcome == GenerateForUser(models, t.user, t.model_id,
                                       readFails, unrated)
        IN  /\ tasks' = tasks \ {t}
            /\ recs' = StoreBatch(recs, t.user, outcome)
            /\ last' = [op |-> "task",
                        kind |-> IF outcome.hasRecs THEN "recs" ELSE "empty",
                        at |-> IF outcome.loaded = 0 THEN "load"
                               ELSE IF outcome.hasRecs THEN "save"
                                    ELSE "recommend",
                        id |-> outcome.loaded,
                        response |-> NoResponse,
                        user |-> t.user, books |-> <<>>]
            /\ UNCHANGED <<ratingCount, models, nextId, pc, call, tx, fired,
                           trigger, engineVars, socialVars>>

(* ---------------- RecommendationEngine, rating by rating -------------- *)

\* the number of rows of each user
CountsOf(r) == [u \in Users |-> Cardinality(r[u])]

\* the rows left by _filter_active_users, as <<user, item>> pairs
FilteredRatings(r, min_ratings_per_user) ==
    {x \in Users \X Items :
        /\ x[1] \in FilterActiveUsers(CountsOf(r), min_ratings_per_user)
        /\ x[2] \in r[x[1]]}

\* train_test_split shuffles the rows and cuts TestSize of them off: the
\* test sets it can produce (the shuffle is seeded, the order of the rows
\* the database returns is not)
TestSets(filtered) ==
    {T \in SUBSET filtered : Cardinality(T) = TestSize(Cardinality(filtered))}

\* trainset.ur: the items of each user among the training rows
Ur(rows) == [u \in Users |-> {i \in Items : <<u, i>> \in rows}]

\* trainset.all_items(): the items of the training rows by inner id, the
\* order in which the shuffled rows mention them
ItemOrders(rows) ==
    LET S == {x[2] : x \in rows}
    IN  {s \in [1..Cardinality(S) -> S] :
            \A a, b \in 1..Cardinality(S) : a # b => s[a] # s[b]}

\* the estimates a fitted model can give the items of its trainset
Estimates(S) ==
    {est \in [Items -> Scores] : \A i \in Items \ S : est[i] = 1}

\* metrics: whether the rmse and mae train returned, which the record
\* takes over, are numbers or None
NoEngine ==
    [full_ratings |-> [u \in Users |-> {}], ur |-> [u \in Users |-> {}],
     all_items |-> <<>>, est |-> [i \in Items |-> 1], metrics |-> "null"]

\* train_test_split(dataset, test_size=0.2) raises ValueError when the
\* test_size is not less than the number of ratings: 0.2 >= n
SplitRaises(n) == 5 * n <= 1

\* The engines train can leave for the ratings r: the split, or on its
\* ValueError the full trainset and no test set; the fit; the evaluation
\* when the test set is not empty.
TrainedEngines(r, min_ratings_per_user) ==
    LET filtered == FilteredRatings(r, min_ratings_per_user)
        fitted(rows, metrics) ==
            {[full_ratings |-> r, ur |-> Ur(rows), all_items |-> order,
              est |-> est, metrics |-> metrics] :
                order \in ItemOrders(rows),
                est \in Estimates({x[2] : x \in rows})}
    IN  IF filtered = {} THEN {}
        ELSE IF SplitRaises(Cardinality(filtered))
        THEN fitted(filtered, "null")
        ELSE UNION {fitted(filtered \ T,
                           IF T = {} THEN "null" ELSE "number") :
                        T \in TestSets(filtered)}

NoEngines == [i \in {} |-> NoEngine]

\* list.sort(key=est, reverse=True) keeps the order of equal keys: x goes
\* behind the elements whose estimate is at least its own
InsertByEst(sorted, x, est) ==
    LET k == Cardinality({j \in 1..Len(sorted) : est[sorted[j]] >= est[x]})
    IN  SubSeq(sorted, 1, k) \o <<x>> \o SubSeq(sorted, k + 1, Len(sorted))

RECURSIVE SortByEst(_, _)
SortByEst(s, est) ==
    IF s = <<>> THEN <<>>
    ELSE InsertByEst(SortByEst(SubSeq(s, 1, Len(s) - 1), est), s[Len(s)], est)

\* predictions_for_user[:n]
Slice(s, n) == SubSeq(s, 1, IF n < Len(s) THEN n ELSE Len(s))

\* a recommend that leaves out what the user's stored batch holds, so that
\* its result depends on the calls made before
RecommendBesideStored(engine, user, n_recommendations) ==
    IF engine.ur[user] = {} THEN <<>>
    ELSE LET stored == {recBooks[user][k] : k \in DOMAIN recBooks[user]}
             unrated == SelectSeq(engine.all_items,
                            LAMBDA i : i \notin engine.ur[user] \cup stored)
         IN  Slice(SortByEst(unrated, engine.est), n_recommendations)

\* what a call that raises hands back in place of a list
Raised(exception) == <<exception>>

\* a recommend that lets the ValueError of trainset.to_inner_uid out
RecommendUncaught(engine, user, n_recommendations) ==
    IF engine.ur[user] = {} THEN Raised("ValueError")
    ELSE LET unrated == SelectSeq(engine.all_items,
                                  LAMBDA i : i \notin engine.ur[user])
         IN  Slice(SortByEst(unrated, engine.est), n_recommendations)

\* recommend_for_user: [] for a user without a training row; otherwise the
\* items of the trainset outside trainset.ur[user], by estimate, cut at n
RecommendForUser(engine, user, n_recommendations) ==
    IF engine.ur[user] = {} THEN <<>>
    ELSE LET unrated == SelectSeq(engine.all_items,
                                  LAMBDA i : i \notin engine.ur[user])
         IN  Slice(SortByEst(unrated, engine.est), n_recommendations)

\* no generation call yet. Of a call: the view or service that ran, its
\* arguments, and for a bulk call the order the users came in and the user
\* whose generation raised
NoArgs == [op |-> "none", user |-> "none", model_id |-> 0,
           n_recommendations |-> 0, readFails |-> FALSE, missing |-> {},
           min_ratings |-> 0, order |-> <<>>, failed |-> "none"]

\* train_recommendation_model, start to end, no other call in between
EngineTrain ==
    \E min_ratings_per_user \in EngineMinRatings :
        LET filtered == FilteredRatings(ratings, min_ratings_per_user)
            none == /\ last' = [NoLast EXCEPT !.op = "train",
                                              !.kind = "None", !.at = "fit"]
                    /\ UNCHANGED <<models, nextId, engines>>
        IN  /\ nextId <= MaxEngines
            /\ IF RatingsEmpty(ratingCount) \/ filtered = {}
               THEN none
               ELSE \/ \E engine \in TrainedEngines(ratings,
                                                     min_ratings_per_user) :
                           /\ models' =
                                TrainSaved(models, nextId, "svd",
                                    min_ratings_per_user,
                                    PickledEngine({u \in Users :
                                                    engine.ur[u] # {}}))
                           /\ engines' =
                                [i \in DOMAIN engines \cup {nextId} |->
                                    IF i = nextId THEN engine
                                    ELSE engines[i]]
                           /\ nextId' = nextId + 1
                           /\ last' = [NoLast EXCEPT !.op = "train",
                                                     !.kind = "record",
                                                     !.at = "commit",
                                                     !.id = nextId]
                    \/ none
                    \/ /\ last' = [NoLast EXCEPT !.op = "train",
                                                 !.kind = "exception",
                                                 !.at = "fit"]
                       /\ UNCHANGED <<models, nextId, engines>>
            /\ UNCHANGED <<ratingCount, ratings, recs, recBooks, args, pc,
                           call, tx, triggerVars, socialVars>>

\* BookRatingCreateAPIView for a book the user has not rated yet. With
\* fewer than RATING_THRESHOLD items the count the trigger reads never
\* equals the threshold.
EngineRate ==
    \E user \in RatingUsers, item \in Items :
        /\ item \notin ratings[user]
        /\ ratings' = [ratings EXCEPT ![user] = @ \cup {item}]
        /\ ratingCount' = CountsOf(ratings')
        /\ PostSave(user, TRUE, ratingCount')
        /\ last' = RatingResponse("created", CreatedStatus(trigger'.raised))
        /\ UNCHANGED <<engines, recBooks, args, pc, call, tx, socialVars>>

\* UserRecommendationViewSet.generate, synchronous, around
\* generate_recommendations_for_user. readFails: opening or unpickling the
\* file raises. missing: the books whose Book.objects.get raises; they are
\* skipped.
EngineGenerateCall(user, model_id, n_recommendations, readFails, missing) ==
        LET loaded == IF readFails THEN 0 ELSE LoadRecord(models, model_id)
            recommendations ==
                IF loaded = 0 THEN <<>>
                ELSE RecommendForUser(engines[loaded], user,
                                      n_recommendations)
            user_recs == SelectSeq(recommendations,
                                   LAMBDA i : i \notin missing)
            saved == recommendations # <<>>
        IN  /\ recs' = IF saved THEN [recs EXCEPT ![user] = loaded]
                       ELSE recs
            /\ recBooks' = IF saved THEN [recBooks EXCEPT ![user] = user_recs]
                           ELSE recBooks
            /\ last' = [op |-> "generate",
                        kind |-> IF saved THEN "recs" ELSE "empty",
                        at |-> IF loaded = 0 THEN "load"
                               ELSE IF saved THEN "save" ELSE "recommend",
                        id |-> loaded,
                        response |-> GenerateView(saved /\ user_recs # <<>>),
                        user |-> user,
                        books |-> IF saved THEN user_recs ELSE <<>>]
            /\ UNCHANGED <<ratingCount, ratings, models, nextId, engines,
                           pc, call, tx, triggerVars, socialVars>>

EngineGenerate ==
    \E user \in Users, model_id \in 0..MaxEngines,
       n_recommendations \in NChoices, readFails \in BOOLEAN,
       missing \in MissingBooks :
        /\ EngineGenerateCall(user, model_id, n_recommendations, readFails,
                              missing)
        /\ UNCHANGED args

\* the same call where the file reads and every book is found, with its
\* arguments kept
EngineGenerateFound ==
    \E user \in Users, model_id \in 0..MaxEngines,
       n_recommendations \in NChoices :
        /\ EngineGenerateCall(user, model_id, n_recommendations, FALSE, {})
        /\ args' = [NoArgs EXCEPT !.op = "generate", !.user = user,
                                  !.model_id = model_id,
                                  !.n_recommendations = n_recommendations]

\* generate_recommendations_for_user with a file that reads: the batch it
\* computes for the user, and whether it replaces the stored one
GeneratedBatch(table, user, model_id, n_recommendations, missing) ==
    LET loaded == LoadRecord(table, model_id)
        recommendations ==
            IF loaded = 0 THEN <<>>
            ELSE RecommendForUser(engines[loaded], user, n_recommendations)
    IN  [loaded |-> loaded,
         saved |-> recommendations # <<>>,
         books |-> SelectSeq(recommendations, LAMBDA i : i \notin missing)]

\* users_with_ratings: the users with at least min_ratings rows
UsersWithRatings(counts, min_ratings) ==
    {u \in Users : counts[u] >= 1 /\ counts[u] >= min_ratings}

\* the rows of the GROUP BY query come in no stated order
UserIds(S) ==
    {s \in [1..Cardinality(S) -> S] : {s[k] : k \in DOMAIN s} = S}

\* the users the loop of generate_recommendations_for_all_users gets
\* through: all of them, or, when the call for the raisedAt-th raises, those
\* before it: nothing in the loop catches the exception
Processed(user_ids, raisedAt) ==
    {user_ids[k] : k \in {j \in DOMAIN user_ids : raisedAt = 0 \/ j < raisedAt}}

\* generate_recommendations_for_all_users, as the view generate_all, the
\* task and the management command call it. raisedAt: the position of the
\* user whose call raises past the load (recommend_for_user, or the delete
\* and bulk_create of the atomic block, which is rolled back); 0 when no
\* call raises. Every book is found here; EngineGenerate has the lookups
\* that fail.
EngineGenerateAll ==
    \E model_id \in 0..MaxEngines, n_recommendations \in {BulkN},
       min_ratings \in BulkMinRatings, missing \in {{}} :
      \E user_ids \in UserIds(UsersWithRatings(ratingCount, min_ratings)) :
        \E raisedAt \in 0..Len(user_ids) :
          LET done == Processed(user_ids, raisedAt)
              batch(u) == GeneratedBatch(models, u, model_id,
                                         n_recommendations, missing)
          IN  /\ raisedAt > 0 => LoadRecord(models, model_id) # 0
              /\ recBooks' = [u \in Users |->
                                IF u \in done /\ batch(u).saved
                                THEN batch(u).books ELSE recBooks[u]]
              /\ recs' = [u \in Users |->
                            IF u \in done /\ batch(u).saved
                            THEN batch(u).loaded ELSE recs[u]]
              /\ last' = [NoLast EXCEPT
                            !.op = "generate_all",
                            !.kind = IF raisedAt = 0 THEN "count"
                                     ELSE "exception",
                            !.id = LoadRecord(models, model_id)]
              /\ args' = [NoArgs EXCEPT
                            !.op = "generate_all",
                            !.model_id = model_id,
                            !.n_recommendations = n_recommendations,
                            !.missing = missing,
                            !.min_ratings = min_ratings,
                            !.order = user_ids,
                            !.failed = IF raisedAt = 0 THEN "none"
                                       ELSE user_ids[raisedAt]]
              /\ UNCHANGED <<ratingCount, ratings, models, nextId, engines,
                             pc, call, tx, triggerVars, socialVars>>

(* ------------------------------- follows ------------------------------ *)

\* what the follow and vote calls leave alone
recommendationVars ==
    <<ratingCount, models, nextId, pc, call, tx, recs, triggerVars,
      engineVars>>

\* the request's "followed" field: a profile, or absent or not a profile
NoProfile == "none"

\* FollowCreateSerializer.is_valid: followed is required and must be the
\* id of a Profile
FollowValid(followed) == followed \in Profiles

\* Follow.save: a row whose follower is the followed is not written
FollowSave(rows, follower, followed) ==
    IF follower = followed THEN rows
    ELSE rows \cup {<<follower, followed>>}

\* FollowCreateAPIView.perform_create: the two early returns and the save
PerformCreate(rows, follower, followed) ==
    IF follower = followed THEN rows
    ELSE IF <<follower, followed>> \in rows THEN rows
    ELSE FollowSave(rows, follower, followed)

\* CreateModelMixin.create: 400 when the serializer is not valid; otherwise
\* perform_create is called, its return value is dropped, and the response
\* is 201 with serializer.data
CreateStatus(rows, follower, followed) ==
    IF ~FollowValid(followed) THEN 400 ELSE 201

\* what a follow request asked for, given the rows it found
FollowKind(rows, follower, followed) ==
    IF ~FollowValid(followed) THEN "invalid"
    ELSE IF follower = followed THEN "self"
    ELSE IF <<follower, followed>> \in rows THEN "duplicate"
    ELSE "new"

\* POST follow-create by the user of profile follower
FollowCreate(follower, followed) ==
    /\ follows' = IF FollowValid(followed)
                  THEN PerformCreate(follows, follower, followed)
                  ELSE follows
    /\ last' = [NoLast EXCEPT
                    !.op = "follow",
                    !.kind = FollowKind(follows, follower, followed),
                    !.at = followed,
                    !.response =
                        [status |-> CreateStatus(follows, follower, followed),
                         body |-> "data"],
                    !.user = follower]
    /\ UNCHANGED <<recommendationVars, votes, upvotes_count,
                   downvotes_count>>

\* DELETE follow-delete: 404 without the row, else the row is deleted
FollowDelete(follower, followed) ==
    /\ follows' = follows \ {<<follower, followed>>}
    /\ last' = [NoLast EXCEPT
                    !.op = "unfollow",
                    !.kind = IF <<follower, followed>> \in follows
                             THEN "deleted" ELSE "missing",
                    !.at = followed,
                    !.response =
                        [status |-> IF <<follower, followed>> \in follows
                                    THEN 204 ELSE 404,
                         body |-> "none"],
                    !.user = follower]
    /\ UNCHANGED <<recommendationVars, votes, upvotes_count,
                   downvotes_count>>

(* ----------------------------- review votes -------------------------- *)

\* filter(user=request.user, review=review)
VotesOf(rows, user) == {r \in rows : r.user = user}

\* the review as a handler holds it: the two counters as read from the row
ReviewRow == [upvotes_count |-> upvotes_count,
              downvotes_count |-> downvotes_count]

\* ReviewVote.save of a new vote, after the INSERT: the counter of the
\* vote's type is written as F(...) + 1, from the stored value db, the
\* other counter from the instance review, and
\* save(update_fields=[both]) writes both
SavedNew(db, review, vote_type) ==
    IF vote_type = "upvote"
    THEN [upvotes_count |-> db.upvotes_count + 1,
          downvotes_count |-> review.downvotes_count]
    ELSE [upvotes_count |-> review.upvotes_count,
          downvotes_count |-> db.downvotes_count + 1]

\* a change of type that counts the new type and forgets the old one
SavedChangeNewOnly(db, review, old_vote_type) ==
    IF old_vote_type = "upvote"
    THEN [upvotes_count |-> review.upvotes_count,
          downvotes_count |-> db.downvotes_count + 1]
    ELSE [upvotes_count |-> db.upvotes_count + 1,
          downvotes_count |-> review.downvotes_count]

\* ReviewVote.save of a vote whose type changed: both counters are F(...)
SavedChange(db, review, old_vote_type) ==
    IF old_vote_type = "upvote"
    THEN [upvotes_count |-> db.upvotes_count - 1,
          downvotes_count |-> db.downvotes_count + 1]
    ELSE [upvotes_count |-> db.upvotes_count + 1,
          downvotes_count |-> db.downvotes_count - 1]

\* ReviewVote.delete, after the DELETE: the counter of the vote's type goes
\* down by one when the instance has it above 0, and both are written
Deleted(db, review, vote_type) ==
    IF vote_type = "upvote" /\ review.upvotes_count > 0
    THEN [upvotes_count |-> db.upvotes_count - 1,
          downvotes_count |-> review.downvotes_count]
    ELSE IF vote_type = "downvote" /\ review.downvotes_count > 0
    THEN [upvotes_count |-> review.upvotes_count,
          downvotes_count |-> db.downvotes_count - 1]
    ELSE review

\* the response of a vote call, with the counters read back from the row
VoteResponse(op, kind, status, user, counts) ==
    [NoLast EXCEPT !.op = op, !.kind = kind, !.user = user,
                   !.response = [status |-> status, body |-> counts]]

\* the three outcomes the vote handlers share: a row inserted, a row's
\* type changed, a row deleted; each with the counters saved after it
VoteInserted(op, user, vote_type) ==
    LET counts == SavedNew(ReviewRow, ReviewRow, vote_type)
    IN  /\ votes' = votes \cup {[user |-> user, vote_type |-> vote_type]}
        /\ upvotes_count' = counts.upvotes_count
        /\ downvotes_count' = counts.downvotes_count
        /\ last' = VoteResponse(op, "created", 201, user, counts)

VoteChanged(op, user, vote_type) ==
    LET existing_vote == CHOOSE r \in VotesOf(votes, user) : TRUE
        counts == SavedChange(ReviewRow, ReviewRow, existing_vote.vote_type)
    IN  /\ votes' = (votes \ {existing_vote})
                        \cup {[user |-> user, vote_type |-> vote_type]}
        /\ upvotes_count' = counts.upvotes_count
        /\ downvotes_count' = counts.downvotes_count
        /\ last' = VoteResponse(op, "changed", 200, user, counts)

VoteDeleted(op, user) ==
    LET existing_vote == CHOOSE r \in VotesOf(votes, user) : TRUE
        counts == Deleted(ReviewRow, ReviewRow, existing_vote.vote_type)
    IN  /\ votes' = votes \ {existing_vote}
        /\ upvotes_count' = counts.upvotes_count
        /\ downvotes_count' = counts.downvotes_count
        /\ last' = VoteResponse(op, "removed", 200, user, counts)

\* a vote call that is turned away
VoteRefused(op, kind, status, user) ==
    /\ last' = VoteResponse(op, kind, status, user, ReviewRow)
    /\ UNCHANGED <<votes, upvotes_count, downvotes_count>>

\* the checks both POST handlers begin with
VoteRequestRefused(op, user, vote_type) ==
    \/ /\ vote_type \notin VoteTypes
       /\ VoteRefused(op, "bad_type", 400, user)
    \/ /\ vote_type \in VoteTypes
       /\ user = ReviewAuthor
       /\ VoteRefused(op, "own_review", 400, user)

\* ReviewVoteCreateAPIView.create
VoteCreate(user, vote_type) ==
    /\ \/ VoteRequestRefused("vote", user, vote_type)
       \/ /\ vote_type \in VoteTypes
          /\ user # ReviewAuthor
          /\ IF VotesOf(votes, user) = {}
             THEN VoteInserted("vote", user, vote_type)
             ELSE IF \E r \in VotesOf(votes, user) : r.vote_type = vote_type
             THEN VoteRefused("vote", "already", 400, user)
             ELSE VoteChanged("vote", user, vote_type)
    /\ UNCHANGED <<recommendationVars, follows>>

\* ReviewVoteToggleAPIView.post
VoteToggle(user, vote_type) ==
    /\ \/ VoteRequestRefused("toggle", user, vote_type)
       \/ /\ vote_type \in VoteTypes
          /\ user # ReviewAuthor
          /\ IF VotesOf(votes, user) = {}
             THEN VoteInserted("toggle", user, vote_type)
             ELSE IF \E r \in VotesOf(votes, user) : r.vote_type = vote_type
             THEN VoteDeleted("toggle", user)
             ELSE VoteChanged("toggle", user, vote_type)
    /\ UNCHANGED <<recommendationVars, follows>>

\* ReviewVoteDeleteAPIView.delete
VoteRemove(user) ==
    /\ IF VotesOf(votes, user) = {}
       THEN VoteRefused("remove", "no_vote", 404, user)
       ELSE VoteDeleted("remove", user)
    /\ UNCHANGED <<recommendationVars, follows>>

(* --------------------------- specifications --------------------------- *)

RegistryInit ==
    /\ ratingCount \in RatingProfiles
    /\ models = EmptyTable
    /\ nextId = 1
    /\ pc = [p \in Procs |-> "idle"]
    /\ call = [p \in Procs |-> NoCall]
    /\ tx = [p \in Procs |-> NoTx]
    /\ recs = [u \in Users |-> 0]
    /\ last = NoLast
    /\ tasks = {}
    /\ fired = [u \in Users |-> 0]
    /\ trigger = NoTrigger
    /\ ratings = [u \in Users |-> {}]
    /\ engines = NoEngines
    /\ recBooks = [u \in Users |-> <<>>]
    /\ args = NoArgs
    /\ follows = {}
    /\ votes = {}
    /\ upvotes_count = 0
    /\ downvotes_count = 0

Step(p, serial) ==
    \/ TrainCall(p, serial)
    \/ TrainData(p)
    \/ Fit(p)
    \/ TxBegin(p)
    \/ TxDeactivate(p)
    \/ TxCreate(p)
    \/ TxFileSave(p)
    \/ TxCommit(p)
    \/ ActivateGet(p, serial)
    \/ ActivateUpdate(p)
    \/ ActivateSave(p)

\* the steps of training calls alone
TrainStep(p, serial) ==
    \/ TrainCall(p, serial)
    \/ TrainData(p)
    \/ Fit(p)
    \/ TxBegin(p)
    \/ TxDeactivate(p)
    \/ TxCreate(p)
    \/ TxFileSave(p)
    \/ TxCommit(p)

\* calls made one after the other: which worker process runs a call makes
\* no difference then, and one runs them all
Worker == CHOOSE p \in Procs : TRUE

Init == RegistryInit

Next == Step(Worker, TRUE)

Spec == Init /\ [][Next]_vars

\* calls of the worker processes interleaved
NextConc == \E p \in Procs : Step(p, FALSE)

SpecConc == Init /\ [][NextConc]_vars

\* training calls alone, interleaved
NextTrainConc == \E p \in Procs : TrainStep(p, FALSE)

SpecTrainConc == Init /\ [][NextTrainConc]_vars

\* rating events of the users and the celery worker
TriggerInit ==
    /\ ratingCount \in TriggerProfiles
    /\ models = EmptyTable
    /\ nextId = 1
    /\ pc = [p \in Procs |-> "idle"]
    /\ call = [p \in Procs |-> NoCall]
    /\ tx = [p \in Procs |-> NoTx]
    /\ recs = [u \in Users |-> 0]
    /\ last = NoLast
    /\ tasks = {}
    /\ fired = [u \in Users |-> 0]
    /\ trigger = NoTrigger
    /\ ratings = [u \in Users |-> {}]
    /\ engines = NoEngines
    /\ recBooks = [u \in Users |-> <<>>]
    /\ args = NoArgs
    /\ follows = {}
    /\ votes = {}
    /\ upvotes_count = 0
    /\ downvotes_count = 0

NextTrigger ==
    \/ \E user \in RatingUsers : RatingCreate(user)
    \/ \E user \in RatingUsers : RatingSave(user)
    \/ \E user \in RatingUsers : RatingDelete(user)
    \/ RunTask

SpecTrigger == TriggerInit /\ [][NextTrigger]_vars

\* training, rating and generating, rating by rating
EngineInit ==
    /\ ratings \in EngineProfiles
    /\ ratingCount = CountsOf(ratings)
    /\ models = EmptyTable
    /\ nextId = 1
    /\ pc = [p \in Procs |-> "idle"]
    /\ call = [p \in Procs |-> NoCall]
    /\ tx = [p \in Procs |-> NoTx]
    /\ recs = [u \in Users |-> 0]
    /\ last = NoLast
    /\ tasks = {}
    /\ fired = [u \in Users |-> 0]
    /\ trigger = NoTrigger
    /\ engines = NoEngines
    /\ recBooks = [u \in Users |-> <<>>]
    /\ args = NoArgs
    /\ follows = {}
    /\ votes = {}
    /\ upvotes_count = 0
    /\ downvotes_count = 0

NextEngine ==
    \/ EngineTrain
    \/ EngineRate
    \/ EngineGenerate

SpecEngine == EngineInit /\ [][NextEngine]_vars

\* training and rating alone, rating by rating
NextFit ==
    \/ EngineTrain
    \/ EngineRate

SpecFit == EngineInit /\ [][NextFit]_vars

\* generation calls on the model of one training, which is there from the
\* start, over ratings that stay as they are
RecommendInit ==
    /\ ratings \in EngineProfiles
    /\ ratingCount = CountsOf(ratings)
    /\ \E min_ratings_per_user \in EngineMinRatings :
        \E engine \in TrainedEngines(ratings, min_ratings_per_user) :
            /\ models = TrainSaved(EmptyTable, 1, "svd", min_ratings_per_user,
                            PickledEngine({u \in Users : engine.ur[u] # {}}))
            /\ engines = [i \in {1} |-> engine]
    /\ nextId = 2
    /\ pc = [p \in Procs |-> "idle"]
    /\ call = [p \in Procs |-> NoCall]
    /\ tx = [p \in Procs |-> NoTx]
    /\ recs = [u \in Users |-> 0]
    /\ last = [NoLast EXCEPT !.op = "train", !.kind = "record",
                             !.at = "commit", !.id = 1]
    /\ tasks = {}
    /\ fired = [u \in Users |-> 0]
    /\ trigger = NoTrigger
    /\ recBooks = [u \in Users |-> <<>>]
    /\ args = NoArgs
    /\ follows = {}
    /\ votes = {}
    /\ upvotes_count = 0
    /\ downvotes_count = 0

NextRecommend == EngineGenerateFound

SpecRecommend == RecommendInit /\ [][NextRecommend]_vars

\* the follow and vote calls start from empty tables; the recommendation
\* side stays as it is
SocialInit ==
    /\ ratings = [u \in Users |-> {}]
    /\ ratingCount = CountsOf(ratings)
    /\ models = EmptyTable
    /\ nextId = 1
    /\ pc = [p \in Procs |-> "idle"]
    /\ call = [p \in Procs |-> NoCall]
    /\ tx = [p \in Procs |-> NoTx]
    /\ recs = [u \in Users |-> 0]
    /\ last = NoLast
    /\ tasks = {}
    /\ fired = [u \in Users |-> 0]
    /\ trigger = NoTrigger
    /\ engines = NoEngines
    /\ recBooks = [u \in Users |-> <<>>]
    /\ args = NoArgs
    /\ follows = {}
    /\ votes = {}
    /\ upvotes_count = 0
    /\ downvotes_count = 0

\* follow and unfollow requests, one after the other
NextFollow ==
    \E follower \in Profiles :
        \/ \E followed \in Profiles \cup {NoProfile} :
                FollowCreate(follower, followed)
        \/ \E followed \in Profiles : FollowDelete(follower, followed)

SpecFollow == SocialInit /\ [][NextFollow]_vars

\* vote, toggle and remove requests on one review, one after the other
NextVotes ==
    \E user \in Voters :
        \/ \E vote_type \in VoteTypes \cup {"other"} :
                VoteCreate(user, vote_type)
        \/ \E vote_type \in VoteTypes \cup {"other"} :
                VoteToggle(user, vote_type)
        \/ VoteRemove(user)

SpecVotes == SocialInit /\ [][NextVotes]_vars

\* training, rating and bulk generation
NextBulk ==
    \/ EngineTrain
    \/ EngineRate
    \/ EngineGenerateAll

SpecBulk == EngineInit /\ [][NextBulk]_vars


(* ------------------------------- claims ------------------------------- *)

\* C1: after any sequence of train_recommendation_model and activate calls,
\* every model_type has at most one RecommendationModel row with
\* is_active = true.
C1_AtMostOneActive ==
    \A t \in ModelTypes :
        Cardinality({i \in DOMAIN models :
            models[i].model_type = t /\ models[i].is_active}) <= 1

\* C1's case: a type with two rows where the older one is the active one,
\* which takes two trainings and an activate.
C1_Witness ==
    \E i \in DOMAIN models, j \in DOMAIN models :
        /\ i < j
        /\ models[i].model_type = models[j].model_type
        /\ models[i].is_active
        /\ ~models[j].is_active
        /\ \A p \in Procs : Idle(p)

\* C2: the list recommend_for_user returns for a user the model knows holds
\* no item the user had rated in the ratings handed to train, the whole of
\* them, not only the part the split left for training.
C2_NoItemOfSnapshot ==
    \A id \in DOMAIN engines, u \in Users, n \in NChoices :
        LET returned == RecommendForUser(engines[id], u, n)
        IN  \A k \in 1..Len(returned) :
                returned[k] \notin engines[id].full_ratings[u]

\* C3: generation leaves out what the user rated after the model was
\* trained: neither the list it returns nor the batch it stores holds an
\* item the user has rated since.
C3_FreshRatingsExcluded ==
    (last.op = "generate" /\ last.kind = "recs")
        => LET fresh == ratings[last.user]
                            \ engines[last.id].full_ratings[last.user]
               stored == recBooks[last.user]
           IN  /\ \A k \in 1..Len(last.books) : last.books[k] \notin fresh
               /\ \A k \in 1..Len(stored) : stored[k] \notin fresh

\* C4: over the rating events of a user the trigger starts training once,
\* at the event that takes the count from RATING_THRESHOLD - 1 to
\* RATING_THRESHOLD, and at no later event.
C4_FiresOnce == \A u \in Users : fired[u] <= 1

\* C5: when the training the trigger started returned None or raised, the
\* trigger starts no generation for the user, neither the task nor the
\* synchronous call.
C5_NoGenerationAfterFailure ==
    trigger.train \in {"None", "exception"} => trigger.gen = "none"

\* the active rows of a type among the committed rows, which is what any
\* reader (load, list) can see
VisibleActive(t) ==
    {i \in DOMAIN models : models[i].model_type = t /\ models[i].is_active}

\* C6: when no usable model exists (none active and no id given, or the
\* given id names no stored model), the caller of generate gets an outcome
\* that differs from the one it gets for an empty recommendation list.
C6_ModelNotFoundReported ==
    (last.op = "generate" /\ last.at = "load")
        => last.response # GenerateView(FALSE)

\* C7: a training call whose rating store is empty, or in which no user
\* has min_ratings_per_user ratings, returns None, creates no row, takes no
\* id and changes no is_active flag.
C7_DataFailureStep ==
    \A p \in Procs :
        (/\ pc[p] = "ratings"
         /\ pc'[p] # "ratings"
         /\ \A u \in Users :
                \/ ratingCount[u] = 0
                \/ ratingCount[u] < call[p].min_ratings_per_user)
        => /\ pc'[p] = "idle"
           /\ last'.op = "train"
           /\ last'.kind = "None"
           /\ models' = models
           /\ nextId' = nextId
           /\ \A q \in Procs : ~tx'[q].open

C7_DataFailure == [][C7_DataFailureStep]_vars

\* C7's case: a training call returned None at the data check while the
\* table holds an active model.
C7_Witness ==
    /\ last.op = "train"
    /\ last.kind = "None"
    /\ last.at = "ratings"
    /\ \E i \in DOMAIN models : models[i].is_active

\* C8: the save step of training is all or nothing. A call that returns the
\* record has added one row, stored and active, and left every other row of
\* its type inactive and every row of another type as it was; a call that
\* ends otherwise has left the table as it found it; and no committed row
\* is ever active without a stored file.
C8_EndOfTrain(p) ==
    IF last'.kind = "record"
    THEN /\ DOMAIN models' = DOMAIN call[p].pre \cup {last'.id}
         /\ last'.id \notin DOMAIN call[p].pre
         /\ models'[last'.id].is_active
         /\ models'[last'.id].model_file.stored
         /\ models'[last'.id].model_type = call[p].model_type
         /\ \A i \in DOMAIN call[p].pre :
                IF call[p].pre[i].model_type = call[p].model_type
                THEN models'[i] = [call[p].pre[i] EXCEPT !.is_active = FALSE]
                ELSE models'[i] = call[p].pre[i]
    ELSE models' = call[p].pre

C8_AllOrNothingStep ==
    /\ \A i \in DOMAIN models' :
            models'[i].is_active => models'[i].model_file.stored
    /\ \A p \in Procs :
            (call[p].op = "train" /\ pc[p] # "idle" /\ pc'[p] = "idle")
                => C8_EndOfTrain(p)

C8_AllOrNothing == [][C8_AllOrNothingStep]_vars

\* C8's case: a training call failed inside the atomic block, after the
\* row was created, while another model of the type was active.
C8_Witness ==
    /\ last.op = "train"
    /\ last.kind = "exception"
    /\ last.at = "file"
    /\ \E i \in DOMAIN models : models[i].is_active

\* C9: while a save or an activate on a type that had an active model when
\* it began is in progress, the committed rows every reader sees hold
\* exactly one active model of that type.
C9_ReaderSeesOneActive ==
    \A p \in Procs :
        (/\ pc[p] # "idle"
         /\ call[p].op \in {"train", "activate"}
         /\ \E i \in DOMAIN call[p].pre :
                /\ call[p].pre[i].model_type = call[p].model_type
                /\ call[p].pre[i].is_active)
        => Cardinality(VisibleActive(call[p].model_type)) = 1

\* C10: when training runs of one type have run interleaved and all have
\* finished, the run that committed last is the one active model of the
\* type.
C10_LastCommittedWins ==
    (/\ \A p \in Procs : Idle(p)
     /\ last.op = "train"
     /\ last.kind = "record")
    => VisibleActive(models[last.id].model_type) = {last.id}

\* C11: when activate(m) has completed, m is active, every other model of
\* m's model_type is inactive, and every model of another model_type is as
\* it was when the call began.
C11_ActivateStep ==
    \A p \in Procs :
        (call[p].op = "activate" /\ pc[p] = "act_save" /\ pc'[p] = "idle")
        => /\ DOMAIN models' = DOMAIN call[p].pre
           /\ models'[call[p].id].is_active
           /\ \A i \in DOMAIN call[p].pre :
                IF call[p].pre[i].model_type # call[p].model_type
                THEN models'[i] = call[p].pre[i]
                ELSE IF i = call[p].id
                THEN models'[i] = [call[p].pre[i] EXCEPT
                                        !.is_active = TRUE,
                                        !.updated_at = "activate"]
                ELSE models'[i] = [call[p].pre[i] EXCEPT !.is_active = FALSE]

C11_ActivateFrame == [][C11_ActivateStep]_vars

\* C11's case: an activate has completed on a type that has another model,
\* the one that was active before, while a model of the other type is
\* active too.
C11_Witness ==
    /\ last.op = "activate"
    /\ last.kind = "200"
    /\ \E i \in DOMAIN models, j \in DOMAIN models :
        /\ i > last.id
        /\ models[i].model_type = models[last.id].model_type
        /\ models[j].model_type # models[last.id].model_type
        /\ models[j].is_active

\* C12: for a user outside the trained population of a model, recommend
\* returns the popularity ranking of the items the user has not rated, so
\* its list is not empty whenever the ratings handed to train hold an item
\* the user has not rated.
C12_ColdStartPopularity ==
    \A id \in DOMAIN engines, u \in Users, n \in NChoices :
        LET snapshot == engines[id].full_ratings
            unratedItems == {i \in Items :
                                /\ \E v \in Users : i \in snapshot[v]
                                /\ i \notin snapshot[u]}
        IN  (engines[id].ur[u] = {} /\ unratedItems # {})
                => RecommendForUser(engines[id], u, n) # <<>>

\* C13: for every trained model, user and n >= 1 the list recommend returns
\* has at most n items; it has exactly n when at least n items of the
\* model's vocabulary are unrated by the user, and otherwise it is all of
\* the unrated items, each once.
C13_BoundedOutput ==
    \A id \in DOMAIN engines, u \in Users, n \in NChoices :
        LET returned == RecommendForUser(engines[id], u, n)
            vocabulary == {engines[id].all_items[k] :
                              k \in 1..Len(engines[id].all_items)}
            unratedItems == vocabulary \ engines[id].full_ratings[u]
        IN  /\ Len(returned) <= n
            /\ Cardinality(unratedItems) >= n => Len(returned) = n
            /\ Cardinality(unratedItems) < n
                => /\ {returned[k] : k \in 1..Len(returned)} = unratedItems
                   /\ Len(returned) = Cardinality(unratedItems)

\* the order of the item ids (isbn13)
ItemId(i) == CASE i = "i1" -> 1 [] i = "i2" -> 2 [] OTHER -> 3

\* C14: the list recommend returns for a user the model knows is sorted by
\* predicted score, highest first, and items of equal predicted score
\* appear in ascending order of item id.
C14_SortedTiesById ==
    \A id \in DOMAIN engines, u \in Users, n \in NChoices :
        LET returned == RecommendForUser(engines[id], u, n)
            est == engines[id].est
        IN  \A a, b \in 1..Len(returned) :
                a < b => \/ est[returned[a]] > est[returned[b]]
                         \/ /\ est[returned[a]] = est[returned[b]]
                            /\ ItemId(returned[a]) < ItemId(returned[b])

\* C15: when generate_recommendations_for_user(u) has completed, the stored
\* recommendations of u are the items of the new batch and nothing else,
\* also when the new batch is empty, each item once, and the stored
\* recommendations of every other user are as they were.
C15_BatchStep ==
    last'.op = "generate"
        => LET stored == recBooks'[last'.user]
           IN  /\ stored = last'.books
               /\ \A a, b \in 1..Len(stored) : a # b => stored[a] # stored[b]
               /\ \A v \in Users \ {last'.user} : recBooks'[v] = recBooks[v]

C15_BatchReplaced == [][C15_BatchStep]_vars

\* C16: a training job delivered a second time, with the same arguments and
\* no rating changed since the first delivery committed, leaves the active
\* model of the type the one the first delivery left.
C16_SecondDeliveryStep ==
    \A p \in Procs :
        (/\ call[p].op = "train"
         /\ pc[p] = "commit"
         /\ pc'[p] = "idle"
         /\ last.op = "train"
         /\ last.kind = "record"
         /\ call[p].pre = models
         /\ models[last.id].model_type = call[p].model_type
         /\ models[last.id].min_ratings_per_user
                = call[p].min_ratings_per_user)
        => {i \in DOMAIN models' :
                /\ models'[i].model_type = call[p].model_type
                /\ models'[i].is_active} = {last.id}

C16_Idempotent == [][C16_SecondDeliveryStep]_vars

\* C17: when the trigger acts and its training succeeds, the new model is
\* trained on ratings that include the triggering user's, saved and made
\* the active svd model, and the generation the trigger starts for the user
\* (the queued task, or the synchronous call) names that model.
C17_TrainThenGenerateStep ==
    \A u \in Users :
        (fired'[u] = fired[u] + 1 /\ trigger'.train = "record")
        => LET id == trigger'.model_id
           IN  /\ trigger'.user = u
               /\ id \notin DOMAIN models
               /\ id \in DOMAIN models'
               /\ models'[id].model_file.stored
               /\ u \in models'[id].model_file.trained
               /\ \A i \in DOMAIN models' :
                    (models'[i].model_type = "svd" /\ models'[i].is_active)
                        <=> i = id
               /\ trigger'.gen = "task"
                    => /\ tasks' = tasks \cup {[user |-> u, model_id |-> id]}
                       /\ recs' = recs
               /\ trigger'.gen = "sync"
                    => /\ tasks' = tasks
                       /\ recs' \in {recs, [recs EXCEPT ![u] = id]}
               /\ trigger'.gen \in {"task", "sync"}

C18_TrainingNotInline ==
    (last.op = "rating" /\ last.kind = "created") => trigger.train = "none"

\* the model type a call without a type means: train's default
DefaultModelType == "svd"

\* C19: in every registry state that train and activate calls on both
\* model types lead to, load(model_id) returns the model of that id,
\* active or not, and load without an id returns the active model of the
\* default model type.
C19_LoadSemantics ==
    (\A p \in Procs : Idle(p))
    => /\ \A id \in DOMAIN models : LoadRecord(models, id) = id
       /\ VisibleActive(DefaultModelType) # {}
            => LoadRecord(models, 0) \in VisibleActive(DefaultModelType)

\* the ratings of the users who have min_ratings_per_user ratings in the
\* snapshot model id was trained from, and the ratings it was fitted on
QualifyingRatings(id) ==
    {x \in Users \X Items :
        /\ x[2] \in engines[id].full_ratings[x[1]]
        /\ Cardinality(engines[id].full_ratings[x[1]])
                >= models[id].min_ratings_per_user}

FittedRatings(id) == {x \in Users \X Items : x[2] \in engines[id].ur[x[1]]}

\* C20, as stated: the ratings a model is fitted on hold no rating of a
\* user with fewer than min_ratings_per_user ratings in the snapshot, and
\* every rating of every user with at least that many.
C20_FittedOnAllQualifying ==
    \A id \in DOMAIN engines : FittedRatings(id) = QualifyingRatings(id)

\* C20, amended: the ratings a model is fitted on are ratings of users with
\* at least min_ratings_per_user ratings in the snapshot, all of these but
\* the ceil(0.2 * n) the split holds out for the test set; a model exists
\* only when some user qualifies.
C20_FittedOnTrainingPart ==
    \A id \in DOMAIN engines :
        LET n == Cardinality(QualifyingRatings(id))
        IN  /\ FittedRatings(id) \subseteq QualifyingRatings(id)
            /\ Cardinality(FittedRatings(id)) = n - TestSize(n)
            /\ n > 0

\* C20's case: a model trained from a snapshot in which one user with
\* ratings is below min_ratings_per_user and another one qualifies and has
\* ratings in the trainset.
C20_Witness ==
    \E id \in DOMAIN engines, u \in Users, v \in Users :
        /\ engines[id].full_ratings[u] # {}
        /\ Cardinality(engines[id].full_ratings[u])
                < models[id].min_ratings_per_user
        /\ <<u, CHOOSE i \in engines[id].full_ratings[u] : TRUE>>
                \notin FittedRatings(id)
        /\ engines[id].ur[v] # {}

\* C21: in a bulk generation where the call for one user raised, every other
\* eligible user for whom the model has recommendations holds the batch
\* that generation computes for them.
C21_OthersStillGenerated ==
    (last.op = "generate_all" /\ args.failed # "none") =>
        \A v \in {args.order[k] : k \in DOMAIN args.order} \ {args.failed} :
            LET b == GeneratedBatch(models, v, args.model_id,
                                    args.n_recommendations, args.missing)
            IN  b.saved => recBooks[v] = b.books

\* C22, as stated: at every step every committed model row stays in the
\* table and keeps every field but is_active, and a training call that
\* returns a record has added a row under an id the table did not hold.
C22_RowStep(mutable) ==
    /\ \A i \in DOMAIN models :
            /\ i \in DOMAIN models'
            /\ \A f \in DOMAIN models[i] \ mutable :
                    models'[i][f] = models[i][f]
    /\ (last'.op = "train" /\ last'.kind = "record" /\ last' # last)
            => /\ last'.id \notin DOMAIN models
               /\ DOMAIN models' = DOMAIN models \cup {last'.id}

C22_OnlyIsActiveChanges == [][C22_RowStep({"is_active"})]_vars

\* C22, amended: the same with updated_at beside is_active: the save() of
\* activate writes the row's auto_now timestamp.
C22_OnlyFlagAndTimestampChange ==
    [][C22_RowStep({"is_active", "updated_at"})]_vars

\* C22's case: a model that an activate call saved and a later training of
\* its type deactivated again, beside the row that training added.
C22_Witness ==
    \E i \in DOMAIN models, j \in DOMAIN models :
        /\ i < j
        /\ models[i].model_type = models[j].model_type
        /\ models[i].updated_at = "activate"
        /\ ~models[i].is_active
        /\ models[j].is_active
        /\ \A p \in Procs : Idle(p)

ScoresOf(id, books) ==
    [k \in DOMAIN books |-> IF id = 0 THEN 0 ELSE engines[id].est[books[k]]]

\* C24: a generation call that follows one with the same user, model and n,
\* the model table, the engines and the ratings being the same, returns the same items with the same scores in the same order, and
\* the same response.
C24_SameCallStep ==
    (/\ last.op = "generate" /\ last'.op = "generate"
     /\ args'.op = "generate" /\ args' = args
     /\ models' = models /\ engines' = engines /\ ratings' = ratings)
    => /\ last'.id = last.id
       /\ last'.books = last.books
       /\ ScoresOf(last'.id, last'.books) = ScoresOf(last.id, last.books)
       /\ last'.response = last.response

C25_AbsentUserGetsList ==
    \A id \in DOMAIN engines, u \in Users, n \in NChoices :
        engines[id].ur[u] = {} =>
            LET returned == RecommendForUser(engines[id], u, n)
            IN  /\ returned # Raised("ValueError")
                /\ Len(returned) <= n
                /\ \A k \in DOMAIN returned : returned[k] \in Items

\* C25's case: an engine whose trainset has rows of one user, while another
\* user had no rating at all when it was trained.
C25_Witness ==
    \E id \in DOMAIN engines, u \in Users, v \in Users :
        /\ engines[id].full_ratings[u] = {}
        /\ engines[id].ur[u] = {}
        /\ engines[id].ur[v] # {}

\* C26: a model trained from a filtered set too small to give both the
\* training and the test part a rating, a single rating, is fitted on all
\* of the filtered set, and its record is stored with rmse and mae null.
C26_SmallSetFullFit ==
    \A id \in DOMAIN engines :
        Cardinality(QualifyingRatings(id)) < 2 =>
            /\ FittedRatings(id) = QualifyingRatings(id)
            /\ engines[id].metrics = "null"
            /\ id \in DOMAIN models
            /\ models[id].model_file.stored

\* C27: a follow request for the requester's own profile, or for a profile
\* the requester follows already, is answered with 400 and leaves the Follow
\* rows as they were; and no Follow row ever has its follower as followed.
C27_FollowStep ==
    /\ \A f \in follows' : f[1] # f[2]
    /\ (last'.op = "follow" /\ last'.kind \in {"self", "duplicate"})
            => /\ follows' = follows
               /\ last'.response.status = 400

C27_SelfAndRepeatedRejected == [][C27_FollowStep]_vars

\* C28: when a step the trigger started has failed (the training, the
\* task's delay(), the synchronous generation), no exception has left the
\* handler, the rating that set it off is among the user's rows and the
\* create call has answered 201.
C28_TriggerFailureContained ==
    (last.op = "rating" /\ last.kind = "created" /\ trigger.failures # {})
        => /\ ~trigger.raised
           /\ last.response.status = 201
           /\ ratingCount[trigger.user] = trigger.count

\* C28's case: the rating that reached the threshold was created while the
\* training, the delay() and the synchronous generation all failed.
C28_Witness ==
    /\ last.op = "rating"
    /\ last.kind = "created"
    /\ trigger.count = RATING_THRESHOLD
    /\ trigger.train = "exception"
    /\ trigger.failures = {"train", "delay", "sync"}

\* C29: a step that saves an existing rating again, through the update
\* endpoint or through the create endpoint for a book the user has rated,
\* trains no model, queues no task and stores no batch, whatever the
\* user's count is.
C29_UpdateStep ==
    (last'.op = "rating" /\ last'.kind = "updated")
        => /\ ~trigger'.created
           /\ trigger'.train = "none"
           /\ trigger'.gen = "none"
           /\ models' = models
           /\ nextId' = nextId
           /\ tasks' = tasks
           /\ fired' = fired
           /\ recs' = recs
           /\ ratingCount' = ratingCount

C29_UpdateNeverTriggers == [][C29_UpdateStep]_vars

\* C29's case: a rating was saved again while its user had exactly
\* RATING_THRESHOLD ratings.
C29_Witness ==
    /\ last.op = "rating"
    /\ last.kind = "updated"
    /\ ~trigger.created
    /\ trigger.count = RATING_THRESHOLD
    /\ ratingCount[trigger.user] = RATING_THRESHOLD

\* C30: in every state the vote calls reach, each user has at most one vote
\* on the review, upvotes_count is the number of its upvote rows,
\* downvotes_count the number of its downvote rows, and neither is
\* negative.
C30_CountersMatchVotes ==
    /\ \A u \in Voters : Cardinality(VotesOf(votes, u)) <= 1
    /\ upvotes_count = Cardinality({r \in votes : r.vote_type = "upvote"})
    /\ downvotes_count
            = Cardinality({r \in votes : r.vote_type = "downvote"})
    /\ upvotes_count >= 0
    /\ downvotes_count >= 0

\* C30's case: a toggle has changed a vote's type while another user's
\* vote of the other type stands, and the author has no vote.
C30_Witness ==
    /\ last.op = "toggle"
    /\ last.kind = "changed"
    /\ upvotes_count = 2
    /\ downvotes_count = 0
    /\ VotesOf(votes, ReviewAuthor) = {}

====
